---- MODULE Spec2Model ----
(***************************************************************************)
(* The event loop of decentralized-chat/src/main.rs: one libp2p swarm       *)
(* whose behaviour events (mDNS Discovered / Expired, request_response      *)
(* Request / Response, anything else) are drawn one at a time and handled   *)
(* to completion before the next one is drawn.                              *)
(*                                                                         *)
(* The node's state is the Vec local_chat_messages, the address book that   *)
(* request_response keeps behind add_address / remove_address, and what     *)
(* the node has handed to the network with send_request / send_response.    *)
(* main() leaves the loop in two ways only: the `?` on serde_json::from_str *)
(* returns Err from main, and the .expect on send_response panics.          *)
(***************************************************************************)
EXTENDS Naturals, Sequences, FiniteSets, TLC

(***************************************************************************)
(* Bounds of the model.                                                    *)
(***************************************************************************)
\* longest list of (peer, address) pairs one mDNS event carries
MaxList == 2
\* outbound requests issued in one run
MaxOutbound == 2
\* inbound requests delivered in one run
MaxInbound == 2

(***************************************************************************)
(* Identities and addresses.  A PeerId is modelled by its base58 text,     *)
(* which is both its Display form and its serde (JSON) form.               *)
(***************************************************************************)
local_peer_id == "PL"
Peers == {"PA", "PB"}
Addrs == {"A1", "A2"}
ValidPeerIds == Peers \cup {local_peer_id}
Pairs == Peers \X Addrs

\* the lists of pairs an mDNS event can carry
RECURSIVE PairLists(_)
PairLists(n) ==
    IF n = 0 THEN {<<>>}
    ELSE LET shorter == PairLists(n - 1)
         IN shorter \cup {Append(l, p) : l \in {s \in shorter : Len(s) = n - 1}, p \in Pairs}

DiscoveryLists == PairLists(MaxList) \ {<<>>}

\* the expiry lists: one list for each set of pairs, in the order of PairOrder
PairOrder == <<<<"PA", "A1">>, <<"PA", "A2">>, <<"PB", "A1">>, <<"PB", "A2">>>>
ExpiryLists ==
    {SelectSeq(PairOrder, LAMBDA pr : pr \in S) :
        S \in {T \in SUBSET Pairs : T # {} /\ Cardinality(T) <= MaxList}}

(***************************************************************************)
(* serde_json::Value, as far as ChatMessage reads it: the kind of the      *)
(* value and, for an object (by key) or an array (by position), the two    *)
(* members peer_id and message.                                            *)
(***************************************************************************)
JStr(s) == [t |-> "string", v |-> s]
JNum(s) == [t |-> "number", v |-> s]
JAbsent == [t |-> "absent", v |-> ""]
JObject(p, m) == [kind |-> "object", peer_id |-> p, message |-> m]
JArray(p, m) == [kind |-> "array", peer_id |-> p, message |-> m]
JScalar == [kind |-> "string", peer_id |-> JAbsent, message |-> JAbsent]

\* format!("Hello I am {}", swarm.local_peer_id())
HelloText(id) == "Hello I am " \o id

\* format!("Welcome {}!, I am {}", peer, swarm.local_peer_id())
WelcomeText(peer, id) == "Welcome " \o peer \o "!, I am " \o id

\* struct ChatMessage { peer_id, message }
ChatMessage(p, m) == [peer_id |-> p, message |-> m]

\* json!(&chat_message): the derived Serialize writes an object of two strings
json(chat_message) == JObject(JStr(chat_message.peer_id), JStr(chat_message.message))

\* serde_json::from_str::<ChatMessage>(&data.to_string()): the derived
\* Deserialize reads an object or an array, needs both members, a string that
\* is a PeerId and a string; anything else is Err.
from_str(data) ==
    IF /\ data.kind \in {"object", "array"}
       /\ data.peer_id.t = "string"
       /\ data.peer_id.v \in ValidPeerIds
       /\ data.message.t = "string"
    THEN [ok |-> TRUE, value |-> ChatMessage(data.peer_id.v, data.message.v)]
    ELSE [ok |-> FALSE, value |-> ChatMessage("", "")]

\* the payloads the network can deliver
WellFormedPayloads ==
    { JObject(JStr("PA"), JStr(HelloText("PA"))),
      JArray(JStr("PB"), JStr(HelloText("PB"))) }
MalformedPayloads ==
    { JObject(JStr("PA"), JNum("7")),
      JObject(JAbsent, JStr("hi")),
      JObject(JStr("not-a-peer-id"), JStr("hi")),
      JScalar }
Payloads == WellFormedPayloads \cup MalformedPayloads

(***************************************************************************)
(* State.                                                                  *)
(***************************************************************************)
VARIABLES
    local_chat_messages,  \* Vec<ChatMessage>
    addresses,            \* request_response's address book: peer -> set of addresses
    sent_requests,        \* what send_request was given, in call order
    sent_responses,       \* what send_response accepted, in call order
    inbound,              \* the inbound requests the network delivered, in order
    ever_registered,      \* the peers add_address has ever added an address for
    status,               \* "running", "exited" (main returned Err), "panicked"
    last,                 \* the event handled last and what its handler did
    net                   \* two nodes running this program and the messages between them

node_vars == <<local_chat_messages, addresses, sent_requests, sent_responses,
               inbound, ever_registered, status, last>>

vars == <<local_chat_messages, addresses, sent_requests, sent_responses,
          inbound, ever_registered, status, last, net>>

NoAddresses == [p \in Peers |-> {}]

\* kind: the match arm taken; peer: the sender of a request or response;
\* outcome: how the handler ended; changed: registrations added or removed;
\* sent: requests or responses handed to the network
Handled(kind, peer, outcome, changed, sent) ==
    [kind |-> kind, peer |-> peer, outcome |-> outcome, changed |-> changed, sent |-> sent]

NoEvent == Handled("none", "", "", 0, 0)

\* the network of two nodes, unused while one node is driven by its events
NetOff == [nodes |-> <<>>, wire |-> {}]

Init ==
    /\ local_chat_messages = <<>>
    /\ addresses = NoAddresses
    /\ sent_requests = <<>>
    /\ sent_responses = <<>>
    /\ inbound = <<>>
    /\ ever_registered = {}
    /\ status = "running"
    /\ last = NoEvent
    /\ net = NetOff

(***************************************************************************)
(* The library calls the handlers make.                                    *)
(***************************************************************************)
\* an add_address that reports a new peer instead of a new address
add_address_reports_new_peer(addrs, peer, address) ==
    [added |-> addrs[peer] = {},
     addresses |-> [addrs EXCEPT ![peer] = @ \cup {address}]]

\* request_response.add_address(&peer, address) -> bool: a set insert
add_address(addrs, peer, address) ==
    [added |-> address \notin addrs[peer],
     addresses |-> [addrs EXCEPT ![peer] = @ \cup {address}]]

\* a remove_address that forgets the peer altogether
remove_address_forgets_peer(addrs, peer, address) ==
    [addrs EXCEPT ![peer] = {}]

\* a remove_address whose retain keeps the named address instead of the others
remove_address_inverted_retain(addrs, peer, address) ==
    [addrs EXCEPT ![peer] = @ \cap {address}]

\* request_response.remove_address(&peer, &address)
remove_address(addrs, peer, address) ==
    [addrs EXCEPT ![peer] = @ \ {address}]

\* request_response.send_request(&peer, Request { data })
send_request(reqs, peer, request) ==
    Append(reqs, [peer |-> peer, data |-> request.data])

\* request_response.send_response(channel, Response { data }): Err(response)
\* when the channel's receiving end is gone
send_response(resps, channel, response) ==
    IF channel.open
    THEN [ok |-> TRUE, sent_responses |-> Append(resps, [channel |-> channel.id, data |-> response.data])]
    ELSE [ok |-> FALSE, sent_responses |-> resps]

\* an insert at the front
push_front(vec, x) == <<x>> \o vec

\* a push into a log that keeps only the newest entry
push_evicting(vec, x) == <<x>>

\* Vec::push
push(vec, x) == Append(vec, x)

\* how many (peer, address) registrations two address books differ by
Registered(addrs) == {pr \in Pairs : pr[2] \in addrs[pr[1]]}
Changed(before, after) ==
    Cardinality((Registered(before) \ Registered(after))
                    \cup (Registered(after) \ Registered(before)))

(***************************************************************************)
(* mdns::Event::Discovered(peers): for each pair in list order, add the    *)
(* address and, when add_address says it was new, send the greeting.       *)
(***************************************************************************)
GreetingOf(id) == ChatMessage(id, HelloText(id))

Greeting == GreetingOf(local_peer_id)

\* a loop that greets every discovered pair, whatever add_address returns
RECURSIVE DiscoveredLoop_resend(_, _, _)
DiscoveredLoop_resend(addrs, reqs, peers) ==
    IF peers = <<>>
    THEN [addresses |-> addrs, sent_requests |-> reqs]
    ELSE LET peer == Head(peers)[1]
             r == add_address(addrs, peer, Head(peers)[2])
         IN DiscoveredLoop_resend(r.addresses,
                                  send_request(reqs, peer, [data |-> json(Greeting)]),
                                  Tail(peers))

\* a loop that greets only on the first address of a peer
RECURSIVE DiscoveredLoop_first_address_only(_, _, _)
DiscoveredLoop_first_address_only(addrs, reqs, peers) ==
    IF peers = <<>>
    THEN [addresses |-> addrs, sent_requests |-> reqs]
    ELSE LET peer == Head(peers)[1]
             r == add_address(addrs, peer, Head(peers)[2])
         IN IF r.added /\ addrs[peer] = {}
            THEN DiscoveredLoop_first_address_only(r.addresses,
                                send_request(reqs, peer, [data |-> json(Greeting)]),
                                Tail(peers))
            ELSE DiscoveredLoop_first_address_only(r.addresses, reqs, Tail(peers))

\* a loop whose greeting carries the discovered peer's identity
RECURSIVE DiscoveredLoop_greets_as_peer(_, _, _)
DiscoveredLoop_greets_as_peer(addrs, reqs, peers) ==
    IF peers = <<>>
    THEN [addresses |-> addrs, sent_requests |-> reqs]
    ELSE LET peer == Head(peers)[1]
             r == add_address(addrs, peer, Head(peers)[2])
         IN IF r.added
            THEN DiscoveredLoop_greets_as_peer(r.addresses,
                    send_request(reqs, peer,
                                 [data |-> json(ChatMessage(peer, HelloText(peer)))]),
                    Tail(peers))
            ELSE DiscoveredLoop_greets_as_peer(r.addresses, reqs, Tail(peers))

\* a loop that greets a peer once in the whole run
RECURSIVE DiscoveredLoop_greets_once_per_peer(_, _, _)
DiscoveredLoop_greets_once_per_peer(addrs, reqs, peers) ==
    IF peers = <<>>
    THEN [addresses |-> addrs, sent_requests |-> reqs]
    ELSE LET peer == Head(peers)[1]
             r == add_address(addrs, peer, Head(peers)[2])
         IN IF r.added /\ \A i \in DOMAIN reqs : reqs[i].peer # peer
            THEN DiscoveredLoop_greets_once_per_peer(r.addresses,
                    send_request(reqs, peer, [data |-> json(Greeting)]),
                    Tail(peers))
            ELSE DiscoveredLoop_greets_once_per_peer(r.addresses, reqs, Tail(peers))

\* a loop that takes the list from its end
RECURSIVE DiscoveredLoop_reversed(_, _, _)
DiscoveredLoop_reversed(addrs, reqs, peers) ==
    IF peers = <<>>
    THEN [addresses |-> addrs, sent_requests |-> reqs]
    ELSE LET rest == DiscoveredLoop_reversed(addrs, reqs, Tail(peers))
             peer == Head(peers)[1]
             r == add_address(rest.addresses, peer, Head(peers)[2])
         IN [addresses |-> r.addresses,
             sent_requests |->
                 IF r.added
                 THEN send_request(rest.sent_requests, peer, [data |-> json(Greeting)])
                 ELSE rest.sent_requests]

\* the loop as the node whose identity is id runs it
RECURSIVE DiscoveredLoopAt(_, _, _, _)
DiscoveredLoopAt(id, addrs, reqs, peers) ==
    IF peers = <<>>
    THEN [addresses |-> addrs, sent_requests |-> reqs]
    ELSE LET peer == Head(peers)[1]
             address == Head(peers)[2]
             r == add_address(addrs, peer, address)
         IN IF r.added
            THEN DiscoveredLoopAt(id, r.addresses,
                                  send_request(reqs, peer, [data |-> json(GreetingOf(id))]),
                                  Tail(peers))
            ELSE DiscoveredLoopAt(id, r.addresses, reqs, Tail(peers))

DiscoveredLoop(addrs, reqs, peers) ==
    DiscoveredLoopAt(local_peer_id, addrs, reqs, peers)

Discovered(peers) ==
    /\ status = "running"
    /\ LET r == DiscoveredLoop(addresses, sent_requests, peers)
       IN /\ Len(r.sent_requests) <= MaxOutbound
          /\ addresses' = r.addresses
          /\ sent_requests' = r.sent_requests
          /\ ever_registered' = ever_registered \cup {P \in Peers : r.addresses[P] # {}}
          /\ last' = Handled("Discovered", "", "ok", Changed(addresses, r.addresses),
                             Len(r.sent_requests) - Len(sent_requests))
    /\ UNCHANGED <<local_chat_messages, sent_responses, inbound, status, net>>

(***************************************************************************)
(* mdns::Event::Expired(peers): remove each pair, in list order.           *)
(***************************************************************************)
RECURSIVE ExpiredLoop(_, _)
ExpiredLoop(addrs, peers) ==
    IF peers = <<>>
    THEN addrs
    ELSE ExpiredLoop(remove_address(addrs, Head(peers)[1], Head(peers)[2]), Tail(peers))

\* a handler that tells a peer when its last address has gone
Expired_notifies(peers) ==
    /\ status = "running"
    /\ LET after == ExpiredLoop(addresses, peers)
           gone == {P \in Peers : addresses[P] # {} /\ after[P] = {}}
       IN /\ addresses' = after
          /\ sent_requests' =
                IF gone # {} /\ Len(sent_requests) < MaxOutbound
                THEN send_request(sent_requests, CHOOSE P \in gone : TRUE,
                                  [data |-> json(Greeting)])
                ELSE sent_requests
          /\ last' = Handled("Expired", "", "ok", Changed(addresses, after), 0)
    /\ UNCHANGED <<local_chat_messages, sent_responses, inbound, ever_registered, status, net>>

Expired(peers) ==
    /\ status = "running"
    /\ LET after == ExpiredLoop(addresses, peers)
       IN /\ addresses' = after
          /\ last' = Handled("Expired", "", "ok", Changed(addresses, after), 0)
    /\ UNCHANGED <<local_chat_messages, sent_requests, sent_responses, inbound,
                   ever_registered, status, net>>

(***************************************************************************)
(* request_response::Message::Request { request, channel } from peer:      *)
(* parse (Err leaves main through `?`), push, build the welcome for the    *)
(* sending peer, send it (Err panics through .expect).                     *)
(***************************************************************************)
\* a handler that welcomes the peer_id of the payload instead of the sender
RequestHandler_greets_payload_origin(msgs, resps, peer, request, channel) ==
    LET parsed == from_str(request.data)
    IN IF ~parsed.ok
       THEN [local_chat_messages |-> msgs, sent_responses |-> resps,
             status |-> "exited", outcome |-> "malformed"]
       ELSE LET pushed == push(msgs, parsed.value)
                chat_message == ChatMessage(local_peer_id,
                                            WelcomeText(parsed.value.peer_id, local_peer_id))
                r == send_response(resps, channel, [data |-> json(chat_message)])
            IN [local_chat_messages |-> pushed, sent_responses |-> r.sent_responses,
                status |-> IF r.ok THEN "running" ELSE "panicked",
                outcome |-> IF r.ok THEN "ok" ELSE "send_failed"]

\* a handler that answers a payload it could not parse and carries on
RequestHandler_replies_to_malformed(msgs, resps, peer, request, channel) ==
    LET parsed == from_str(request.data)
        chat_message == ChatMessage(local_peer_id, WelcomeText(peer, local_peer_id))
        r == send_response(resps, channel, [data |-> json(chat_message)])
    IN [local_chat_messages |-> IF parsed.ok THEN push(msgs, parsed.value) ELSE msgs,
        sent_responses |-> r.sent_responses,
        status |-> IF r.ok THEN "running" ELSE "panicked",
        outcome |-> IF r.ok THEN "ok" ELSE "send_failed"]

\* a handler that drops a payload whose peer_id is not the sender
RequestHandler_cross_checks(msgs, resps, peer, request, channel) ==
    LET parsed == from_str(request.data)
    IN IF ~parsed.ok
       THEN [local_chat_messages |-> msgs, sent_responses |-> resps,
             status |-> "exited", outcome |-> "malformed"]
       ELSE IF parsed.value.peer_id # peer
       THEN [local_chat_messages |-> msgs, sent_responses |-> resps,
             status |-> "running", outcome |-> "rejected"]
       ELSE LET pushed == push(msgs, parsed.value)
                chat_message == ChatMessage(local_peer_id, WelcomeText(peer, local_peer_id))
                r == send_response(resps, channel, [data |-> json(chat_message)])
            IN [local_chat_messages |-> pushed, sent_responses |-> r.sent_responses,
                status |-> IF r.ok THEN "running" ELSE "panicked",
                outcome |-> IF r.ok THEN "ok" ELSE "send_failed"]

\* a handler that answers without logging
RequestHandlerAt_answers_without_logging(id, msgs, resps, peer, request, channel) ==
    LET parsed == from_str(request.data)
    IN IF ~parsed.ok
       THEN [local_chat_messages |-> msgs, sent_responses |-> resps,
             status |-> "exited", outcome |-> "malformed"]
       ELSE LET chat_message == ChatMessage(id, WelcomeText(peer, id))
                r == send_response(resps, channel, [data |-> json(chat_message)])
            IN [local_chat_messages |-> msgs, sent_responses |-> r.sent_responses,
                status |-> IF r.ok THEN "running" ELSE "panicked",
                outcome |-> IF r.ok THEN "ok" ELSE "send_failed"]

\* the handler as the node whose identity is id runs it
RequestHandlerAt(id, msgs, resps, peer, request, channel) ==
    LET parsed == from_str(request.data)
    IN IF ~parsed.ok
       THEN [local_chat_messages |-> msgs, sent_responses |-> resps,
             status |-> "exited", outcome |-> "malformed"]
       ELSE LET pushed == push(msgs, parsed.value)
                chat_message == ChatMessage(id, WelcomeText(peer, id))
                r == send_response(resps, channel, [data |-> json(chat_message)])
            IN [local_chat_messages |-> pushed, sent_responses |-> r.sent_responses,
                status |-> IF r.ok THEN "running" ELSE "panicked",
                outcome |-> IF r.ok THEN "ok" ELSE "send_failed"]

RequestHandler(msgs, resps, peer, request, channel) ==
    RequestHandlerAt(local_peer_id, msgs, resps, peer, request, channel)

\* a handler that serves only peers it has an address for
RequestReceived_known_only(peer, request, channel) ==
    /\ status = "running"
    /\ Len(inbound) < MaxInbound
    /\ channel.id = Len(inbound) + 1
    /\ LET r == IF addresses[peer] = {}
                THEN [local_chat_messages |-> local_chat_messages,
                      sent_responses |-> sent_responses,
                      status |-> "running", outcome |-> "ignored"]
                ELSE RequestHandler(local_chat_messages, sent_responses, peer, request, channel)
       IN /\ local_chat_messages' = r.local_chat_messages
          /\ sent_responses' = r.sent_responses
          /\ status' = r.status
          /\ last' = Handled("Request", peer, r.outcome, 0,
                             Len(r.sent_responses) - Len(sent_responses))
    /\ inbound' = Append(inbound, [peer |-> peer, data |-> request.data])
    /\ UNCHANGED <<addresses, sent_requests, ever_registered, net>>

RequestReceived(peer, request, channel) ==
    /\ status = "running"
    /\ Len(inbound) < MaxInbound
    /\ channel.id = Len(inbound) + 1
    /\ LET r == RequestHandler(local_chat_messages, sent_responses, peer, request, channel)
       IN /\ local_chat_messages' = r.local_chat_messages
          /\ sent_responses' = r.sent_responses
          /\ status' = r.status
          /\ last' = Handled("Request", peer, r.outcome, 0,
                             Len(r.sent_responses) - Len(sent_responses))
    /\ inbound' = Append(inbound, [peer |-> peer, data |-> request.data])
    /\ UNCHANGED <<addresses, sent_requests, ever_registered, net>>

(***************************************************************************)
(* request_response::Message::Response { response } from peer: printed.    *)
(* The network delivers a response only for a request sent to that peer.   *)
(***************************************************************************)
\* a handler that also logs the response it received
ResponseReceived_logs(peer, response) ==
    /\ status = "running"
    /\ \E i \in 1..Len(sent_requests) : sent_requests[i].peer = peer
    /\ local_chat_messages' =
           IF from_str(response.data).ok
           THEN push(local_chat_messages, from_str(response.data).value)
           ELSE local_chat_messages
    /\ last' = Handled("Response", peer, "ok", 0, 0)
    /\ UNCHANGED <<addresses, sent_requests, sent_responses, inbound,
                   ever_registered, status, net>>

ResponseReceived(peer, response) ==
    /\ status = "running"
    /\ \E i \in 1..Len(sent_requests) : sent_requests[i].peer = peer
    /\ last' = Handled("Response", peer, "ok", 0, 0)
    /\ UNCHANGED <<local_chat_messages, addresses, sent_requests, sent_responses,
                   inbound, ever_registered, status, net>>

(***************************************************************************)
(* Any other swarm event: the catch-all arm.                               *)
(***************************************************************************)
\* a catch-all arm that sends the last greeting again
OtherEvent_retries ==
    /\ status = "running"
    /\ sent_requests' =
          IF sent_requests # <<>> /\ Len(sent_requests) < MaxOutbound
          THEN Append(sent_requests, sent_requests[Len(sent_requests)])
          ELSE sent_requests
    /\ last' = Handled("Other", "", "ok", 0, 0)
    /\ UNCHANGED <<local_chat_messages, addresses, sent_responses,
                   inbound, ever_registered, status, net>>

OtherEvent ==
    /\ status = "running"
    /\ last' = Handled("Other", "", "ok", 0, 0)
    /\ UNCHANGED <<local_chat_messages, addresses, sent_requests, sent_responses,
                   inbound, ever_registered, status, net>>

Channels == [id : 1..MaxInbound, open : BOOLEAN]

Next ==
    \/ \E peers \in DiscoveryLists : Discovered(peers)
    \/ \E peers \in ExpiryLists : Expired(peers)
    \/ \E peer \in Peers, data \in Payloads, channel \in Channels :
           RequestReceived(peer, [data |-> data], channel)
    \/ \E peer \in Peers, data \in Payloads : ResponseReceived(peer, [data |-> data])
    \/ OtherEvent

Spec == Init /\ [][Next]_vars

(***************************************************************************)
(* Two nodes running this program, joined by a transport that loses        *)
(* nothing: every request handed to send_request reaches the peer's        *)
(* Request arm and every response reaches the requester's Response arm.    *)
(***************************************************************************)
NetNodes == Peers

\* a node after construction (lines 33-73)
NetNode ==
    [local_chat_messages |-> <<>>, addresses |-> NoAddresses,
     sent_requests |-> <<>>, sent_responses |-> <<>>,
     received |-> <<>>, status |-> "running"]

NetStart == [nodes |-> [n \in NetNodes |-> NetNode], wire |-> {}]

InitNet ==
    /\ local_chat_messages = <<>>
    /\ addresses = NoAddresses
    /\ sent_requests = <<>>
    /\ sent_responses = <<>>
    /\ inbound = <<>>
    /\ ever_registered = {}
    /\ status = "running"
    /\ last = NoEvent
    /\ net = NetStart

\* the requests reqs[from + 1 ..] of node n as messages on the wire
Outgoing(n, reqs, from) ==
    {[kind |-> "request", from |-> n, to |-> reqs[i].peer, id |-> i, data |-> reqs[i].data] :
         i \in (from + 1)..Len(reqs)}

\* node n handles Mdns Discovered(list); mDNS never reports the node itself
NetDiscovered(n, peers) ==
    /\ net.nodes[n].status = "running"
    /\ \A i \in DOMAIN peers : peers[i][1] # n
    /\ LET me == net.nodes[n]
           r == DiscoveredLoopAt(n, me.addresses, me.sent_requests, peers)
       IN /\ Len(r.sent_requests) <= MaxOutbound
          /\ net' = [nodes |-> [net.nodes EXCEPT ![n] =
                                   [me EXCEPT !.addresses = r.addresses,
                                              !.sent_requests = r.sent_requests]],
                     wire |-> net.wire \cup Outgoing(n, r.sent_requests, Len(me.sent_requests))]
    /\ UNCHANGED node_vars

\* node n handles Mdns Expired(list)
NetExpired(n, peers) ==
    /\ net.nodes[n].status = "running"
    /\ \A i \in DOMAIN peers : peers[i][1] # n
    /\ LET me == net.nodes[n]
       IN net' = [net EXCEPT !.nodes[n] =
                      [me EXCEPT !.addresses = ExpiredLoop(me.addresses, peers)]]
    /\ UNCHANGED node_vars

\* the request m reaches node n's Request arm; its reply channel is open, and
\* is the next of the node's inbound channels (every earlier request was logged)
NetRequestReceived(n, m) ==
    /\ net.nodes[n].status = "running"
    /\ m \in net.wire
    /\ m.kind = "request"
    /\ m.to = n
    /\ LET me == net.nodes[n]
           r == RequestHandlerAt(n, me.local_chat_messages, me.sent_responses, m.from,
                                 [data |-> m.data],
                                 [id |-> Len(me.local_chat_messages) + 1, open |-> TRUE])
           replies == {[kind |-> "response", from |-> n, to |-> m.from, id |-> m.id,
                        data |-> r.sent_responses[i].data] :
                           i \in (Len(me.sent_responses) + 1)..Len(r.sent_responses)}
       IN net' = [nodes |-> [net.nodes EXCEPT ![n] =
                                [me EXCEPT !.local_chat_messages = r.local_chat_messages,
                                           !.sent_responses = r.sent_responses,
                                           !.status = r.status]],
                  wire |-> (net.wire \ {m}) \cup replies]
    /\ UNCHANGED node_vars

\* the response m reaches node n's Response arm, which prints it
NetResponseReceived(n, m) ==
    /\ net.nodes[n].status = "running"
    /\ m \in net.wire
    /\ m.kind = "response"
    /\ m.to = n
    /\ LET me == net.nodes[n]
       IN net' = [nodes |-> [net.nodes EXCEPT ![n] =
                                [me EXCEPT !.received =
                                     Append(me.received, [peer |-> m.from, data |-> m.data])]],
                  wire |-> net.wire \ {m}]
    /\ UNCHANGED node_vars

DeliverRequest == \E n \in NetNodes : \E m \in net.wire : NetRequestReceived(n, m)

DeliverResponse == \E n \in NetNodes : \E m \in net.wire : NetResponseReceived(n, m)

\* the lists mDNS reports to a node: one for each set of pairs
NetLists == ExpiryLists

NextNet ==
    \/ \E n \in NetNodes, peers \in NetLists : NetDiscovered(n, peers)
    \/ \E n \in NetNodes, peers \in NetLists : NetExpired(n, peers)
    \/ DeliverRequest
    \/ DeliverResponse

\* the loop always takes the next swarm event, and the transport delivers
SpecNet ==
    /\ InitNet
    /\ [][NextNet]_vars
    /\ WF_vars(DeliverRequest)
    /\ WF_vars(DeliverResponse)

(***************************************************************************)
(* Properties.                                                             *)
(***************************************************************************)
IsPrefix(s, t) == Len(s) <= Len(t) /\ SubSeq(t, 1, Len(s)) = s

\* the requests a step hands to send_request
NewRequests == SubSeq(sent_requests', Len(sent_requests) + 1, Len(sent_requests'))

RequestsTo(reqs, P) == Cardinality({i \in DOMAIN reqs : reqs[i].peer = P})

\* the step handles an inbound request from peer carrying data on channel
IsRequestStep(peer, data, channel) == RequestReceived(peer, [data |-> data], channel)

\* C1: an inbound request whose payload does not parse as a ChatMessage adds
\* nothing to the Message Log, sends no response, and leaves the dispatcher
\* running, ready for the next event.
C1_MalformedDroppedDispatcherContinues ==
    [][\A peer \in Peers, data \in Payloads, channel \in Channels :
          (~from_str(data).ok /\ IsRequestStep(peer, data, channel))
              => /\ local_chat_messages' = local_chat_messages
                 /\ sent_responses' = sent_responses
                 /\ status' = "running"]_vars

\* C2: when sending the response to a well-formed inbound request fails, the
\* dispatcher does not crash: it is still running, ready for the next event.
C2_ResponseFailureScopedToExchange ==
    [][\A peer \in Peers, data \in Payloads, channel \in Channels :
          (from_str(data).ok /\ ~channel.open /\ IsRequestStep(peer, data, channel))
              => status' = "running"]_vars

\* C3: a Found(P, A) event for a peer with no registered address (so also a
\* peer never seen before) issues exactly one outbound request, addressed to
\* P; a repeated Found(P, A) for a pair that is still registered issues none.
C3_OneHandshakePerNewPeer ==
    [][\A P \in Peers, A \in Addrs :
          (last'.kind = "Discovered" /\ Discovered(<< <<P, A>> >>))
              => /\ addresses[P] = {}
                    => /\ Len(sent_requests') = Len(sent_requests) + 1
                       /\ IsPrefix(sent_requests, sent_requests')
                       /\ sent_requests'[Len(sent_requests')].peer = P
                 /\ A \in addresses[P] => sent_requests' = sent_requests]_vars

\* a Found(PA, A1) for the registered pair (PA, A1) was handled: nothing was
\* registered or sent, and PA has been greeted once
C3_Witness ==
    /\ last.kind = "Discovered" /\ last.changed = 0 /\ last.sent = 0
    /\ addresses = [NoAddresses EXCEPT !["PA"] = {"A1"}]
    /\ RequestsTo(sent_requests, "PA") = 1
    /\ Len(sent_requests) = 1

\* C4, as claimed: a Found(P, A2) that registers an additional, different
\* address for a peer that already has a registered address issues no
\* outbound request.
C4_Original_AdditionalAddressSilent ==
    [][\A P \in Peers, A2 \in Addrs :
          ( /\ addresses[P] # {}
            /\ A2 \notin addresses[P]
            /\ Discovered(<< <<P, A2>> >>) )
              => sent_requests' = sent_requests]_vars

\* C4, amended: the greeting is triggered exactly when add_address returns
\* true: a discovery event issues to each peer P as many requests as it
\* registers new addresses for P, also when P already had another address.
C4_GreetingPerNewRegistration ==
    [][last'.kind = "Discovered"
          => /\ IsPrefix(sent_requests, sent_requests')
             /\ \A P \in Peers :
                   RequestsTo(NewRequests, P)
                       = Cardinality(addresses'[P] \ addresses[P])]_vars

\* a Found registered a second address of PA and greeted PA a second time
C4_Witness ==
    /\ last.kind = "Discovered" /\ last.changed = 1 /\ last.sent = 1
    /\ addresses["PA"] = {"A1", "A2"}
    /\ RequestsTo(sent_requests, "PA") = 2

\* the response the handler owes the sender of a request
WelcomeResponse(channel, S) ==
    [channel |-> channel.id,
     data |-> JObject(JStr(local_peer_id),
                      JStr("Welcome " \o S \o "!, I am " \o local_peer_id))]

\* C5, as claimed: a well-formed request {peer_id: P, message: M} appends
\* exactly {origin: P, text: M} to the Message Log and sends exactly one
\* response on its channel, from the local identity, with text
\* "Welcome P!, I am <local id>".
C5_Original_RoundTripGreetsPayloadOrigin ==
    [][\A peer \in Peers, data \in Payloads, channel \in Channels :
          (last'.kind = "Request" /\ from_str(data).ok /\ IsRequestStep(peer, data, channel))
              => /\ local_chat_messages'
                       = Append(local_chat_messages,
                                [peer_id |-> data.peer_id.v, message |-> data.message.v])
                 /\ sent_responses'
                       = Append(sent_responses,
                                WelcomeResponse(channel, data.peer_id.v))]_vars

\* C5, amended: a well-formed request {peer_id: P, message: M} from sender S
\* appends exactly {origin: P, text: M} to the Message Log; the one response
\* handed to its channel is from the local identity with text
\* "Welcome S!, I am <local id>", and it is sent exactly when the channel is
\* still open.
C5_RoundTripGreetsSender ==
    [][\A peer \in Peers, data \in Payloads, channel \in Channels :
          (last'.kind = "Request" /\ from_str(data).ok /\ IsRequestStep(peer, data, channel))
              => /\ local_chat_messages'
                       = Append(local_chat_messages,
                                [peer_id |-> data.peer_id.v, message |-> data.message.v])
                 /\ sent_responses'
                       = IF channel.open
                         THEN Append(sent_responses, WelcomeResponse(channel, peer))
                         ELSE sent_responses]_vars

\* a request from PA whose payload names PB was logged under PB and answered
\* with a welcome for PA
C5_Witness ==
    /\ last.kind = "Request" /\ last.outcome = "ok" /\ last.peer = "PA"
    /\ local_chat_messages # <<>>
    /\ local_chat_messages[Len(local_chat_messages)].peer_id = "PB"
    /\ sent_responses # <<>>
    /\ sent_responses[Len(sent_responses)]
           = WelcomeResponse([id |-> Len(inbound)], "PA")

\* C6: handling an inbound response leaves the Message Log as it was and
\* issues neither a request nor a response, whatever the payload.
C6_ResponseLeavesLogUnchanged ==
    [][last'.kind = "Response"
          => /\ local_chat_messages' = local_chat_messages
             /\ sent_requests' = sent_requests
             /\ sent_responses' = sent_responses]_vars

\* a response was handled while the Message Log held an entry
C6_Witness ==
    /\ last.kind = "Response"
    /\ local_chat_messages # <<>>

\* the well-formed requests among those delivered, parsed, in delivery order
WellFormedDelivered ==
    LET wf == SelectSeq(inbound, LAMBDA rq : from_str(rq.data).ok)
    IN [i \in 1..Len(wf) |-> from_str(wf[i].data).value]

\* C7: whatever discovery, expiry and response events are interleaved, the
\* Message Log holds the well-formed inbound requests, one entry each, in
\* exactly the order they were delivered.
C7_LogInDeliveryOrder ==
    /\ Len(local_chat_messages) = Len(WellFormedDelivered)
    /\ \A i \in 1..Len(local_chat_messages) :
          /\ local_chat_messages[i].peer_id = WellFormedDelivered[i].peer_id
          /\ local_chat_messages[i].message = WellFormedDelivered[i].message

\* two requests of different origins were logged, a discovery came before
\* and a response after them
C7_Witness ==
    /\ Len(local_chat_messages) = 2
    /\ local_chat_messages[1].peer_id # local_chat_messages[2].peer_id
    /\ sent_requests # <<>>
    /\ last.kind = "Response"

\* C8: the Message Log is append-only: in every step the log before the step
\* is a prefix of the log after it.
C8_LogAppendOnly ==
    [][IsPrefix(local_chat_messages, local_chat_messages')]_vars

\* a request was appended to a log that already held an entry
C8_Witness ==
    /\ last.kind = "Request"
    /\ Len(local_chat_messages) = 2

\* C9: registering a pair that is not registered returns true, registering it
\* again returns false and changes nothing, the address is then held once;
\* a Found event that names the same pair twice registers it once and greets
\* once, and none at all when the pair was registered already.
C9_IdempotentRegistration ==
    /\ [](\A P \in Peers, A \in Addrs :
              LET r1 == add_address(addresses, P, A)
                  r2 == add_address(r1.addresses, P, A)
              IN /\ r1.added <=> <<P, A>> \notin Registered(addresses)
                 /\ ~r2.added
                 /\ r2.addresses = r1.addresses
                 /\ Cardinality({a \in r2.addresses[P] : a = A}) = 1
                 /\ Registered(r2.addresses) = Registered(addresses) \cup {<<P, A>>})
    /\ [][last'.kind = "Discovered" => \A P \in Peers, A \in Addrs :
             ( /\ last'.kind = "Discovered" /\ last'.changed <= 1 /\ A \in addresses'[P]
               /\ Discovered(<< <<P, A>>, <<P, A>> >>) )
                => /\ Registered(addresses') = Registered(addresses) \cup {<<P, A>>}
                   /\ Len(sent_requests')
                         = Len(sent_requests) + (IF A \in addresses[P] THEN 0 ELSE 1)]_vars

\* a Found event found both addresses of PB registered already
C9_Witness ==
    /\ last.kind = "Discovered" /\ last.changed = 0 /\ last.sent = 0
    /\ addresses["PB"] = {"A1", "A2"}

\* C10: Expired(P, A) removes exactly the pair (P, A): every other
\* registration, of P and of every other peer, stays as it was.
C10_ExpiryRemovesNamedPair ==
    [][\A P \in Peers, A \in Addrs :
          (last'.kind = "Expired" /\ Expired(<< <<P, A>> >>))
              => \A Q \in Peers, B \in Addrs :
                    B \in addresses'[Q] <=> (B \in addresses[Q] /\ <<Q, B>> # <<P, A>>)]_vars

\* after Found(PA, A1), Found(PA, A2) and an expiry that removed one pair,
\* PA is left with A2 alone
C10_Witness ==
    /\ last.kind = "Expired" /\ last.changed = 1
    /\ Len(sent_requests) = 2 /\ RequestsTo(sent_requests, "PA") = 2
    /\ addresses["PA"] = {"A2"}

\* C11: an Expired(P, A) for a pair that is not registered changes nothing:
\* the registry, the Message Log and the sent requests and responses stay as
\* they were, and the dispatcher is still running.
C11_ExpiryOfUnknownPairIsNoOp ==
    [][\A P \in Peers, A \in Addrs :
          (last'.kind = "Expired" /\ A \notin addresses[P] /\ Expired(<< <<P, A>> >>))
              => /\ addresses' = addresses
                 /\ local_chat_messages' = local_chat_messages
                 /\ sent_requests' = sent_requests
                 /\ sent_responses' = sent_responses
                 /\ status' = "running"]_vars

\* an expiry that named only unregistered pairs was handled while PA held A1
C11_Witness ==
    /\ last.kind = "Expired" /\ last.changed = 0
    /\ addresses = [NoAddresses EXCEPT !["PA"] = {"A1"}]
    /\ status = "running"

\* the request the node owes a newly registered peer
HelloRequest(P) ==
    [peer |-> P,
     data |-> JObject(JStr(local_peer_id), JStr("Hello I am " \o local_peer_id))]

\* C12: every outbound request carries {origin: local identity, text:
\* "Hello I am <local-id>"} and goes to a peer for which the Found event being
\* handled registered an address; every message sent in the run, request or
\* response, carries the same local identity.
C12_GreetingContentAndTarget ==
    [][/\ \A i \in DOMAIN sent_requests' :
             sent_requests'[i] = HelloRequest(sent_requests'[i].peer)
       /\ \A i \in DOMAIN sent_responses' :
             sent_responses'[i].data.peer_id = JStr(local_peer_id)
       /\ \A i \in DOMAIN NewRequests :
             addresses'[NewRequests[i].peer] # addresses[NewRequests[i].peer]
       /\ \A P \in Peers, A \in Addrs :
             (last'.kind = "Discovered" /\ Discovered(<< <<P, A>> >>))
                 => \A i \in DOMAIN NewRequests : NewRequests[i].peer = P]_vars

\* both peers were greeted and a response was sent
C12_Witness ==
    /\ RequestsTo(sent_requests, "PA") = 1
    /\ RequestsTo(sent_requests, "PB") = 1
    /\ sent_responses # <<>>

\* C13: once a peer that was registered before has no address left, a Found
\* for it issues a new request to it, on an address it never had and on an
\* address it had before alike.
C13_RediscoveryGreetsAgain ==
    [][\A P \in Peers, A \in Addrs :
          ( /\ last'.kind = "Discovered"
            /\ addresses[P] = {}
            /\ P \in ever_registered
            /\ Discovered(<< <<P, A>> >>) )
              => sent_requests' = Append(sent_requests, HelloRequest(P))]_vars

\* PA was found, lost its last address, and was found again on A1: it was
\* greeted twice
C13_Witness ==
    /\ last.kind = "Discovered" /\ last.changed = 1 /\ last.sent = 1
    /\ ever_registered = {"PA"}
    /\ addresses["PA"] = {"A1"}
    /\ RequestsTo(sent_requests, "PA") = 2

\* C14: handling an Expired event issues no request and no response and
\* leaves the Message Log as it was, also when a peer's last address goes;
\* handling a Found event leaves the Message Log as it was.
C14_DiscoveryEventsLeaveLogAlone ==
    [][/\ last'.kind = "Expired"
             => /\ sent_requests' = sent_requests
                /\ sent_responses' = sent_responses
                /\ local_chat_messages' = local_chat_messages
       /\ last'.kind = "Discovered"
             => /\ local_chat_messages' = local_chat_messages
                /\ sent_responses' = sent_responses]_vars

\* an expiry removed the last registered address while the log held an entry
C14_Witness ==
    /\ last.kind = "Expired" /\ last.changed >= 1
    /\ addresses = NoAddresses
    /\ local_chat_messages # <<>>
    /\ sent_requests # <<>>

\* the peer was never discovered and never greeted
Unknown(P) ==
    /\ addresses[P] = {}
    /\ P \notin ever_registered
    /\ RequestsTo(sent_requests, P) = 0

\* C15, as claimed: a well-formed request from a peer in state Unknown is
\* appended to the log and answered with a response, issues no outbound
\* request and leaves the registry as it was.
C15_Original_UnknownPeerAnswered ==
    [][\A peer \in Peers, data \in Payloads, channel \in Channels :
          ( /\ last'.kind = "Request" /\ from_str(data).ok /\ Unknown(peer)
            /\ IsRequestStep(peer, data, channel) )
              => /\ local_chat_messages'
                       = Append(local_chat_messages,
                                [peer_id |-> data.peer_id.v, message |-> data.message.v])
                 /\ sent_responses' = Append(sent_responses, WelcomeResponse(channel, peer))
                 /\ sent_requests' = sent_requests
                 /\ addresses' = addresses]_vars

\* C15, amended: a well-formed request from a peer in state Unknown is
\* appended to the log and, when its reply channel is still open, answered
\* with a response; it issues no outbound request and leaves the registry as
\* it was.
C15_UnknownPeerAnsweredOnOpenChannel ==
    [][\A peer \in Peers, data \in Payloads, channel \in Channels :
          ( /\ last'.kind = "Request" /\ from_str(data).ok /\ Unknown(peer)
            /\ IsRequestStep(peer, data, channel) )
              => /\ local_chat_messages'
                       = Append(local_chat_messages,
                                [peer_id |-> data.peer_id.v, message |-> data.message.v])
                 /\ channel.open
                       => sent_responses'
                            = Append(sent_responses, WelcomeResponse(channel, peer))
                 /\ ~channel.open => sent_responses' = sent_responses
                 /\ sent_requests' = sent_requests
                 /\ addresses' = addresses]_vars

\* a request from PA, never discovered nor greeted, was logged and answered
C15_Witness ==
    /\ last.kind = "Request" /\ last.outcome = "ok" /\ last.peer = "PA"
    /\ Unknown("PA")
    /\ Len(local_chat_messages) = 1
    /\ sent_responses = <<WelcomeResponse([id |-> 1], "PA")>>

\* C16: the node issues a request only while handling a Found event, and
\* only to a peer for which that event registers a new address: no other
\* event (and so no passing of time) sends a second request to a peer whose
\* response has not arrived.
C16_NoRetryWithoutNewRegistration ==
    [][sent_requests' # sent_requests
          => /\ last'.kind = "Discovered"
             /\ IsPrefix(sent_requests, sent_requests')
             /\ \A i \in DOMAIN NewRequests :
                   \E A \in Addrs :
                      /\ A \in addresses'[NewRequests[i].peer]
                      /\ A \notin addresses[NewRequests[i].peer]]_vars

\* PA was greeted once, another event was handled, and no second request
\* has been issued
C16_Witness ==
    /\ last.kind = "Other"
    /\ sent_requests = <<HelloRequest("PA")>>
    /\ addresses["PA"] # {}

\* node A has handed B a handshake request: it handled Found(B, addr) as a new
\* registration
HandshakeIssued(A, B) ==
    \E i \in DOMAIN net.nodes[A].sent_requests : net.nodes[A].sent_requests[i].peer = B

\* B's log holds A's greeting
GreetingLogged(A, B) ==
    \E j \in DOMAIN net.nodes[B].local_chat_messages :
        net.nodes[B].local_chat_messages[j] = ChatMessage(A, "Hello I am " \o A)

WelcomeOf(A, B) == JObject(JStr(B), JStr("Welcome " \o A \o "!, I am " \o B))

\* A has received B's welcome
WelcomeReceived(A, B) ==
    \E k \in DOMAIN net.nodes[A].received :
        net.nodes[A].received[k] = [peer |-> B, data |-> WelcomeOf(A, B)]

\* B has sent A a response, still on its way or already received
Answered(A, B) ==
    \/ \E m \in net.wire : m.kind = "response" /\ m.from = B /\ m.to = A
    \/ \E k \in DOMAIN net.nodes[A].received : net.nodes[A].received[k].peer = B

\* C17: over a transport that loses nothing and delivers fairly, once A has
\* issued the handshake to B, B's log eventually holds {A, "Hello I am A"} and
\* A eventually receives "Welcome A!, I am B"; B has logged the greeting
\* before any response of B to A exists, and at least as many greetings as
\* responses it has sent; the step in which a node receives a response leaves
\* that node's log as it was.
C17_HandshakeCompletes ==
    /\ \A A \in NetNodes : \A B \in NetNodes \ {A} :
           /\ HandshakeIssued(A, B) ~> (GreetingLogged(A, B) /\ WelcomeReceived(A, B))
           /\ [](Answered(A, B) => GreetingLogged(A, B))
    /\ [](\A B \in NetNodes :
              Len(net.nodes[B].sent_responses) <= Len(net.nodes[B].local_chat_messages))
    /\ [][\A A \in NetNodes :
              Len(net.nodes[A].received') > Len(net.nodes[A].received)
                  => net.nodes[A].local_chat_messages' = net.nodes[A].local_chat_messages]_vars

\* both handshakes have completed: each node has logged the other's greeting
\* and received the other's welcome
C17_Witness ==
    /\ net.wire = {}
    /\ WelcomeReceived("PA", "PB")
    /\ WelcomeReceived("PB", "PA")
    /\ GreetingLogged("PA", "PB")
    /\ GreetingLogged("PB", "PA")
    /\ net.nodes["PA"].local_chat_messages = <<ChatMessage("PB", "Hello I am PB")>>

\* C18: the responses sent are at most the log entries, which are at most the
\* inbound requests handled; the log has one entry for each well-formed
\* request handled, and every response answers a well-formed inbound request.
C18_ResponsesLogRequestsCounts ==
    /\ Len(sent_responses) <= Len(local_chat_messages)
    /\ Len(local_chat_messages) <= Len(inbound)
    /\ Len(local_chat_messages)
          = Cardinality({i \in DOMAIN inbound : from_str(inbound[i].data).ok})
    /\ \A j \in DOMAIN sent_responses :
          /\ sent_responses[j].channel \in DOMAIN inbound
          /\ from_str(inbound[sent_responses[j].channel].data).ok
          /\ \A k \in DOMAIN sent_responses :
                sent_responses[k].channel = sent_responses[j].channel => k = j

\* two requests were handled and logged, and the second was not answered
C18_Witness ==
    /\ Len(inbound) = 2
    /\ Len(local_chat_messages) = 2
    /\ Len(sent_responses) = 1

\* C19: a well-formed request sent by peer S whose payload names another
\* peer P is accepted: it is logged under origin P, and the response sent
\* for it reads "Welcome S!, I am <local id>".
C19_OriginAndSenderNotCrossChecked ==
    [][last'.kind = "Request" => \A S \in Peers, data \in Payloads, channel \in Channels :
          ( /\ last'.kind = "Request" /\ last'.peer = S /\ channel.id = Len(inbound')
            /\ inbound'[Len(inbound')].data = data
            /\ from_str(data).ok /\ data.peer_id.v # S
            /\ IsRequestStep(S, data, channel) )
              => /\ status' # "exited"
                 /\ Len(local_chat_messages') = Len(local_chat_messages) + 1
                 /\ local_chat_messages'[Len(local_chat_messages')].peer_id = data.peer_id.v
                 /\ local_chat_messages'[Len(local_chat_messages')].peer_id # S
                 /\ \A j \in DOMAIN sent_responses' :
                       sent_responses'[j].channel = channel.id
                           => sent_responses'[j].data.message
                                = JStr("Welcome " \o S \o "!, I am " \o local_peer_id)]_vars

\* a request from PB whose payload names PA was logged under PA and answered
\* with a welcome for PB
C19_Witness ==
    /\ last.kind = "Request" /\ last.outcome = "ok" /\ last.peer = "PB"
    /\ local_chat_messages # <<>>
    /\ local_chat_messages[Len(local_chat_messages)].peer_id = "PA"
    /\ sent_responses # <<>>
    /\ sent_responses[Len(sent_responses)].data.message
           = JStr("Welcome PB!, I am " \o local_peer_id)

\* the greetings a discovery list calls for: one for each pair that is not
\* registered before the event and does not occur earlier in the list
ExpectedGreetings(before, peers) ==
    LET idx == SelectSeq([i \in 1..Len(peers) |-> i],
                         LAMBDA i : /\ peers[i] \notin Registered(before)
                                    /\ \A j \in 1..(i - 1) : peers[j] # peers[i])
    IN [k \in 1..Len(idx) |-> HelloRequest(peers[idx[k]][1])]

\* C20: a discovery event that carries two pairs is handled in one step, pair
\* by pair in list order: it issues one request for each pair that is new
\* when the loop reaches it, so one for a pair that occurs twice and two for
\* two addresses of one peer, and registers both pairs.
C20_ListHandledPairByPair ==
    [][last'.kind = "Discovered" => \A p \in Pairs, q \in Pairs :
          ( /\ last'.kind = "Discovered" /\ last'.changed <= 2
            /\ p[2] \in addresses'[p[1]] /\ q[2] \in addresses'[q[1]]
            /\ Discovered(<<p, q>>) )
              => /\ sent_requests' = sent_requests \o ExpectedGreetings(addresses, <<p, q>>)
                 /\ Registered(addresses') = Registered(addresses) \cup {p, q}]_vars

\* one event registered both addresses of PA and greeted PA twice
C20_Witness ==
    /\ last.kind = "Discovered" /\ last.changed = 2 /\ last.sent = 2
    /\ sent_requests = <<HelloRequest("PA"), HelloRequest("PA")>>
    /\ addresses["PA"] = {"A1", "A2"}

====
